---------------------------- MODULE Spec2Model ----------------------------
(***************************************************************************)
(* Model of the storage-facility scanner (src/app.py): the grid generator  *)
(* GridCalculator.calculate_scan_grid and the in-memory session store      *)
(* driven by the Flask handlers.                                           *)
(*                                                                         *)
(* Units.  The code computes in IEEE doubles; the model computes in exact  *)
(* integers on a lattice fine enough to hold every value it needs:         *)
(*   - angles are in "degree units" of 125 micro-degrees (DegUnitMicro),   *)
(*     so the viewport table 0.02 .. 0.00125 degrees is 160 .. 10 units    *)
(*     and the step (80% of it) is 128 .. 8 units;                         *)
(*   - miles are in "mile units" of 125 micro-miles, so radius_miles / 69 *)
(*     is a whole number of degree units when radius_miles is a multiple   *)
(*     of 69 mile units (the inputs are drawn from those multiples);       *)
(*   - lat / lon of a point are in micro-degrees, the resolution of        *)
(*     round(lat, 6).                                                      *)
(* The haversine distance is taken in its small-angle form                 *)
(*   d^2 = (R*pi/180)^2 * (dlat^2 + cos(lat1)*cos(lat2)*dlon^2),           *)
(* with cos(lat2) taken at the centre latitude.  For the radii of the      *)
(* model (below half a mile) this decides `distance <= radius_miles` as    *)
(* the code does: on every input of GridInputs the retained cells and      *)
(* their order are those the Python code returns.                          *)
(***************************************************************************)
EXTENDS Integers, Sequences, FiniteSets, TLC

(***************************************************************************)
(* Bounds of the model.                                                    *)
(***************************************************************************)
MaxRadius == 26        \* largest radius drawn, in units of 69 mile units
MaxNegRadius == 8      \* largest negative radius drawn, same units
MaxJumpIndex == 2      \* largest small index sent with 'jump'
MaxUuids == 2          \* uuid4() values drawn in one run (sessions and bookmarks)
MaxClock == 2          \* last reading of the clock

(***************************************************************************)
(* Program constants.                                                      *)
(***************************************************************************)
MilesPerDegree == 69          \* radius_deg = radius_miles / 69.0
HaversineNum == 354           \* (R * pi / 180 / 69)^2 = 1.00283 = 354 / 353,
HaversineDen == 353           \*   with R = 3959 miles
DegUnitMicro == 125           \* micro-degrees in one degree unit
DefaultViewSize == 20         \* viewport_degrees.get(zoom_level, 0.0025)

Max(a, b) == IF a >= b THEN a ELSE b
Min(a, b) == IF a <= b THEN a ELSE b
Abs(a) == IF a >= 0 THEN a ELSE -a

\* Python's int(): truncation towards zero of the quotient a / b, b > 0.
PyInt(a, b) == IF a >= 0 THEN a \div b ELSE -((-a) \div b)

(***************************************************************************)
(* Inputs of the generator.                                                *)
(***************************************************************************)
\* centre latitudes drawn, in micro-degrees: the equator, the latitude of
\* the specification's example, and 60 degrees north
CenterLats == {0, 35492209, 60000000}
CenterLon == -94226087
ZoomLevels == {17, 18, 19, 12}
RadiiMiles == {MilesPerDegree * q : q \in (0 - MaxNegRadius)..MaxRadius}

\* 1000 * cos(lat)^2 for the centre latitudes of the model
CosSqMilli(lat) ==
    CASE lat = 0 -> 1000
      [] lat = 35492209 -> 663
      [] lat = 60000000 -> 250
      [] OTHER -> 1000

\* viewport_degrees.get(zoom_level, 0.0025), in degree units
ViewSize(zoom_level) ==
    CASE zoom_level = 15 -> 160
      [] zoom_level = 16 -> 80
      [] zoom_level = 17 -> 40
      [] zoom_level = 18 -> 20
      [] zoom_level = 19 -> 10
      [] OTHER -> DefaultViewSize

RadiusDeg(radius_miles) == PyInt(radius_miles, MilesPerDegree)

StepSize(zoom_level) == (ViewSize(zoom_level) * 8) \div 10

GridSizeNoPlusOne(radius_miles, zoom_level) ==
    PyInt(2 * RadiusDeg(radius_miles), StepSize(zoom_level))

GridSize(radius_miles, zoom_level) ==
    PyInt(2 * RadiusDeg(radius_miles), StepSize(zoom_level)) + 1

\* offset of lattice line k (a row or a column) from the centre, degree units
Offset(radius_miles, zoom_level, k) ==
    (0 - RadiusDeg(radius_miles)) + k * StepSize(zoom_level)

\* _distance_miles(...) between the centre and the point at offsets dlat, dlon
\* (degree units), as 1000 * HaversineDen * (distance / 69)^2
DistanceSq(center_lat, dlat, dlon) ==
    HaversineNum * (1000 * dlat * dlat + CosSqMilli(center_lat) * dlon * dlon)

\* the same scaling of radius_miles
RadiusSq(radius_miles) ==
    HaversineDen * 1000 * RadiusDeg(radius_miles) * RadiusDeg(radius_miles)

\* distance <= radius_miles
WithinRadiusStrict(center_lat, dlat, dlon, radius_miles) ==
    /\ radius_miles > 0
    /\ DistanceSq(center_lat, dlat, dlon) < RadiusSq(radius_miles)

WithinRadius(center_lat, dlat, dlon, radius_miles) ==
    /\ radius_miles >= 0
    /\ DistanceSq(center_lat, dlat, dlon) <= RadiusSq(radius_miles)

\* cols = range(grid_size) if row % 2 == 0 else range(grid_size - 1, -1, -1)
ColsNoReverse(row, grid_size) == [i \in 1..grid_size |-> i - 1]

ColsStride(row, grid_size) ==
    IF row % 2 = 0 THEN [i \in 1..grid_size |-> i - 1]
    ELSE [i \in 1..((grid_size + 1) \div 2) |-> grid_size + 1 - 2 * i]

Cols(row, grid_size) ==
    IF row % 2 = 0 THEN [i \in 1..grid_size |-> i - 1]
    ELSE [i \in 1..grid_size |-> grid_size - i]

\* the dict appended for an included cell (the URL strings, which are
\* formatted from lat, lon and zoom_level, are left out)
GridPoint(point_id, center_lat, center_lon, radius_miles, zoom_level, row, col) ==
    [id |-> point_id,
     lat |-> center_lat + DegUnitMicro * Offset(radius_miles, zoom_level, row),
     lon |-> center_lon + DegUnitMicro * Offset(radius_miles, zoom_level, col),
     row |-> row,
     col |-> col]

\* the inner loop with `point_id += 1` outside the `if`
RECURSIVE ScanColsIdPerCell(_, _, _, _, _, _, _, _)
ScanColsIdPerCell(center_lat, center_lon, radius_miles, zoom_level, row, cols, k, acc) ==
    IF k > Len(cols) THEN acc
    ELSE ScanColsIdPerCell(center_lat, center_lon, radius_miles, zoom_level, row, cols,
             k + 1,
             [grid_points |->
                  IF WithinRadius(center_lat,
                                  Offset(radius_miles, zoom_level, row),
                                  Offset(radius_miles, zoom_level, cols[k]),
                                  radius_miles)
                  THEN Append(acc.grid_points,
                              GridPoint(acc.point_id, center_lat, center_lon,
                                        radius_miles, zoom_level, row, cols[k]))
                  ELSE acc.grid_points,
              point_id |-> acc.point_id + 1])

\* the inner loop `for col in cols`, from position k of cols;
\* acc = [grid_points, point_id]
RECURSIVE ScanCols(_, _, _, _, _, _, _, _)
ScanCols(center_lat, center_lon, radius_miles, zoom_level, row, cols, k, acc) ==
    IF k > Len(cols) THEN acc
    ELSE IF WithinRadius(center_lat,
                         Offset(radius_miles, zoom_level, row),
                         Offset(radius_miles, zoom_level, cols[k]),
                         radius_miles)
         THEN ScanCols(center_lat, center_lon, radius_miles, zoom_level, row, cols,
                       k + 1,
                       [grid_points |->
                            Append(acc.grid_points,
                                   GridPoint(acc.point_id, center_lat, center_lon,
                                             radius_miles, zoom_level, row, cols[k])),
                        point_id |-> acc.point_id + 1])
         ELSE ScanCols(center_lat, center_lon, radius_miles, zoom_level, row, cols,
                       k + 1, acc)

\* the outer loop `for row in range(grid_size)`.  (point_id is never
\* negative: the second test only makes TLC, which evaluates operator
\* arguments lazily, finish a row before it starts the next one.)
RECURSIVE ScanRows(_, _, _, _, _, _)
ScanRows(center_lat, center_lon, radius_miles, zoom_level, row, acc) ==
    IF row >= GridSize(radius_miles, zoom_level) \/ acc.point_id < 0 THEN acc
    ELSE ScanRows(center_lat, center_lon, radius_miles, zoom_level, row + 1,
                  ScanCols(center_lat, center_lon, radius_miles, zoom_level, row,
                           Cols(row, GridSize(radius_miles, zoom_level)), 1, acc))

calculate_scan_grid(center_lat, center_lon, radius_miles, zoom_level) ==
    ScanRows(center_lat, center_lon, radius_miles, zoom_level, 0,
             [grid_points |-> <<>>, point_id |-> 0]).grid_points

(***************************************************************************)
(* State.                                                                  *)
(***************************************************************************)
VARIABLES
    scanning_sessions,  \* the module-level dict: session id -> session
    cookie,             \* session['session_id'] of the browser; None when unset
    uuid_calls,         \* number of uuid.uuid4() calls made so far
    clock,              \* the value the next datetime.now() returns
    request,            \* the request handled last
    response,           \* the response it was answered with
    gridIn,             \* arguments of a direct call of calculate_scan_grid
    gridOut,            \* the list it returned
    gridDone,           \* whether the call has returned
    threads,            \* the server threads handling /control_scan requests
    overlap_start       \* the session when the requests in progress began

storeVars == <<scanning_sessions, cookie, uuid_calls, clock, request, response>>
gridVars == <<gridIn, gridOut, gridDone>>
threadVars == <<threads, overlap_start>>
vars == <<scanning_sessions, cookie, uuid_calls, clock, request, response,
          gridIn, gridOut, gridDone, threads, overlap_start>>

None == "None"            \* a JSON field (action, note) that is absent
NoSessionId == 0          \* session.get('session_id') of a browser without one
NoIndex == <<>>           \* a request body without 'index'; <<i>> carries index i
DefaultNote == "Potential storage facility"

\* requests the browser sends
Actions == {"start", "pause", "resume", "stop", "next", "previous", "jump"}
OtherActions == {"rewind", None}
JumpIndices == {<<i>> : i \in (0 - 1)..MaxJumpIndex \cup {9999}}
Notes == {None, "Unit 12"}

\* a JSON field of /setup_scan: a number, or text no number can be parsed from
Num(n) == [numeric |-> TRUE, value |-> n]
NotANumber == [numeric |-> FALSE, value |-> 0]

SetupFields == {"center_lat", "center_lon", "radius_miles", "zoom_level", "speed_seconds"}

ValidSetup(radius_miles) ==
    [center_lat |-> Num(0), center_lon |-> Num(CenterLon),
     radius_miles |-> Num(radius_miles), zoom_level |-> Num(19),
     speed_seconds |-> Num(3)]

\* radii of the sessions created: 0 (one point), 3 * 69 (a positive radius
\* whose only lattice cell is outside the disc: no point), 9 * 69 (3 points)
SetupRadii == {0, 3 * MilesPerDegree, 9 * MilesPerDegree}

SetupData ==
    {ValidSetup(r) : r \in SetupRadii}
    \cup {[ValidSetup(9 * MilesPerDegree) EXCEPT !.radius_miles = NotANumber]}
    \cup {[f \in SetupFields \ {"zoom_level"} |-> ValidSetup(0)[f]]}

\* the float(data[...]) / int(data[...]) conversions all succeed
SetupParsesPresentOnly(data) ==
    \A f \in SetupFields : f \in DOMAIN data

SetupParses(data) ==
    \A f \in SetupFields : f \in DOMAIN data /\ data[f].numeric

NoResponse == [status |-> "none"]
NoRequest == [op |-> "none"]

InitGridIdle ==
    /\ gridIn = [center_lat |-> 0, center_lon |-> CenterLon,
                 radius_miles |-> 0, zoom_level |-> 18]
    /\ gridOut = <<>>
    /\ gridDone = FALSE

\* the threads of the server: app.run() serves each request in its own thread
Threads == {1, 2}

IdleThread == [pc |-> "idle", action |-> None, writes |-> <<>>]

InitThreadsIdle ==
    /\ threads = [t \in Threads |-> IdleThread]
    /\ overlap_start = None

Init ==
    /\ scanning_sessions = <<>>
    /\ cookie = NoSessionId
    /\ uuid_calls = 0
    /\ clock = 0
    /\ request = NoRequest
    /\ response = NoResponse
    /\ InitGridIdle
    /\ InitThreadsIdle

\* session_id not in scanning_sessions (or no session_id)
NoActiveSession == cookie = NoSessionId \/ cookie \notin DOMAIN scanning_sessions

\* jsonify({'error': 'No active scanning session'})
ErrorNoSessionAsSuccess == [status |-> "ok", error |-> "No active scanning session"]

ErrorNoSession == [status |-> "error", error |-> "No active scanning session"]

\* datetime.now(): the k-th call a handler makes after its first reads
\* Now(k); every call reads a later time than the one before, until the
\* clock of the model stops at MaxClock
Now(k) == Min(clock + k, MaxClock)

\* list[i] of Python for an int i: negative indices count from the end
PyIndexOk(list, i) == (0 - Len(list)) <= i /\ i < Len(list)
PyIndex(list, i) == IF i >= 0 THEN list[i + 1] ELSE list[Len(list) + i + 1]

\* round(x, 1) of 100 * a / b, in tenths (b > 0)
PercentTenths(a, b) == (2000 * a + b) \div (2 * b)

(***************************************************************************)
(* /setup_scan                                                             *)
(***************************************************************************)
NewSessionRunning(session_id, data) ==
    [id |-> session_id,
     center_lat |-> data.center_lat.value,
     center_lon |-> data.center_lon.value,
     radius_miles |-> data.radius_miles.value,
     zoom_level |-> data.zoom_level.value,
     speed_seconds |-> data.speed_seconds.value,
     grid_points |-> calculate_scan_grid(data.center_lat.value, data.center_lon.value,
                                         data.radius_miles.value, data.zoom_level.value),
     current_index |-> 0,
     is_running |-> TRUE,
     is_paused |-> FALSE,
     bookmarks |-> <<>>,
     created_at |-> Now(0),
     last_activity |-> Now(1)]

NewSession(session_id, data) ==
    [id |-> session_id,
     center_lat |-> data.center_lat.value,
     center_lon |-> data.center_lon.value,
     radius_miles |-> data.radius_miles.value,
     zoom_level |-> data.zoom_level.value,
     speed_seconds |-> data.speed_seconds.value,
     grid_points |-> calculate_scan_grid(data.center_lat.value, data.center_lon.value,
                                         data.radius_miles.value, data.zoom_level.value),
     current_index |-> 0,
     is_running |-> FALSE,
     is_paused |-> FALSE,
     bookmarks |-> <<>>,
     created_at |-> Now(0),
     last_activity |-> Now(1)]

setup_scan(data) ==
    /\ request' = [op |-> "setup_scan", data |-> data]
    /\ IF SetupParses(data)
       THEN /\ uuid_calls < MaxUuids
            /\ LET session_id == uuid_calls + 1
                   new == NewSession(session_id, data)
               IN /\ scanning_sessions' =
                         [id \in DOMAIN scanning_sessions \cup {session_id} |->
                              IF id = session_id THEN new ELSE scanning_sessions[id]]
                  /\ cookie' = session_id
                  /\ uuid_calls' = uuid_calls + 1
                  /\ clock' = Now(2)
                  /\ response' = [status |-> "ok",
                                  session_id |-> session_id,
                                  total_points |-> Len(new.grid_points),
                                  \* estimated_time_minutes, as a fraction
                                  estimated_time_num |->
                                      Len(new.grid_points) * new.speed_seconds,
                                  estimated_time_den |-> 60]
       ELSE /\ response' = [status |-> "error", error |-> "exception text"]
            /\ UNCHANGED <<scanning_sessions, cookie, uuid_calls, clock>>
    /\ UNCHANGED <<gridVars, threadVars>>

(***************************************************************************)
(* /get_current_location                                                   *)
(***************************************************************************)
get_current_location ==
    /\ request' = [op |-> "get_current_location"]
    /\ IF NoActiveSession
       THEN response' = ErrorNoSession
       ELSE LET scan_session == scanning_sessions[cookie]
                current_index == scan_session.current_index
                grid_points == scan_session.grid_points
            IN IF current_index < Len(grid_points)
               THEN IF PyIndexOk(grid_points, current_index)
                    THEN response' =
                             [status |-> "ok",
                              current_point |-> PyIndex(grid_points, current_index),
                              current_index |-> current_index,
                              total_points |-> Len(grid_points),
                              progress_tenths |->
                                  PercentTenths(current_index, Len(grid_points)),
                              is_running |-> scan_session.is_running,
                              is_paused |-> scan_session.is_paused]
                    ELSE response' = [status |-> "exception", type |-> "IndexError"]
               ELSE response' = [status |-> "ok", completed |-> TRUE,
                                 progress_tenths |-> 1000]
    /\ UNCHANGED <<scanning_sessions, cookie, uuid_calls, clock, gridVars, threadVars>>

(***************************************************************************)
(* /control_scan                                                           *)
(***************************************************************************)
\* min(current_index + 1, len(grid_points) - 1)
NextIndexUnclamped(scan_session) == scan_session.current_index + 1

NextIndex(scan_session) ==
    Min(scan_session.current_index + 1, Len(scan_session.grid_points) - 1)

\* max(current_index - 1, 0)
PreviousIndexUnclamped(scan_session) == scan_session.current_index - 1

PreviousIndex(scan_session) == Max(scan_session.current_index - 1, 0)

\* max(0, min(index, len(grid_points) - 1))
JumpIndexNoLowerBound(scan_session, index) ==
    Min(index, Len(scan_session.grid_points) - 1)

JumpIndex(scan_session, index) ==
    Max(0, Min(index, Len(scan_session.grid_points) - 1))

\* the if / elif chain on action; index is request.json.get('index', 0)
ApplyActionStopClears(scan_session, action, index) ==
    CASE action = "start" ->
             [scan_session EXCEPT !.is_running = TRUE, !.is_paused = FALSE]
      [] action = "pause" -> [scan_session EXCEPT !.is_paused = TRUE]
      [] action = "resume" -> [scan_session EXCEPT !.is_paused = FALSE]
      [] action = "stop" ->
             [scan_session EXCEPT !.is_running = FALSE, !.is_paused = FALSE,
                                  !.bookmarks = <<>>]
      [] action = "next" ->
             [scan_session EXCEPT !.current_index = NextIndex(scan_session)]
      [] action = "previous" ->
             [scan_session EXCEPT !.current_index = PreviousIndex(scan_session)]
      [] action = "jump" ->
             [scan_session EXCEPT !.current_index = JumpIndex(scan_session, index)]
      [] OTHER -> scan_session

ApplyActionPauseIfRunning(scan_session, action, index) ==
    CASE action = "start" ->
             [scan_session EXCEPT !.is_running = TRUE, !.is_paused = FALSE]
      [] action = "pause" -> [scan_session EXCEPT !.is_paused = scan_session.is_running]
      [] action = "resume" -> [scan_session EXCEPT !.is_paused = FALSE]
      [] action = "stop" ->
             [scan_session EXCEPT !.is_running = FALSE, !.is_paused = FALSE]
      [] action = "next" ->
             [scan_session EXCEPT !.current_index = NextIndex(scan_session)]
      [] action = "previous" ->
             [scan_session EXCEPT !.current_index = PreviousIndex(scan_session)]
      [] action = "jump" ->
             [scan_session EXCEPT !.current_index = JumpIndex(scan_session, index)]
      [] OTHER -> scan_session

ApplyActionUnknownStops(scan_session, action, index) ==
    CASE action = "start" ->
             [scan_session EXCEPT !.is_running = TRUE, !.is_paused = FALSE]
      [] action = "pause" -> [scan_session EXCEPT !.is_paused = TRUE]
      [] action = "resume" -> [scan_session EXCEPT !.is_paused = FALSE]
      [] action = "next" ->
             [scan_session EXCEPT !.current_index = NextIndex(scan_session)]
      [] action = "previous" ->
             [scan_session EXCEPT !.current_index = PreviousIndex(scan_session)]
      [] action = "jump" ->
             [scan_session EXCEPT !.current_index = JumpIndex(scan_session, index)]
      [] OTHER ->
             [scan_session EXCEPT !.is_running = FALSE, !.is_paused = FALSE]

ApplyActionNextIfRunning(scan_session, action, index) ==
    CASE action = "start" ->
             [scan_session EXCEPT !.is_running = TRUE, !.is_paused = FALSE]
      [] action = "pause" -> [scan_session EXCEPT !.is_paused = TRUE]
      [] action = "resume" -> [scan_session EXCEPT !.is_paused = FALSE]
      [] action = "stop" ->
             [scan_session EXCEPT !.is_running = FALSE, !.is_paused = FALSE]
      [] action = "next" ->
             IF scan_session.is_running /\ ~scan_session.is_paused
             THEN [scan_session EXCEPT !.current_index = NextIndex(scan_session)]
             ELSE scan_session
      [] action = "previous" ->
             [scan_session EXCEPT !.current_index = PreviousIndex(scan_session)]
      [] action = "jump" ->
             [scan_session EXCEPT !.current_index = JumpIndex(scan_session, index)]
      [] OTHER -> scan_session

ApplyAction(scan_session, action, index) ==
    CASE action = "start" ->
             [scan_session EXCEPT !.is_running = TRUE, !.is_paused = FALSE]
      [] action = "pause" -> [scan_session EXCEPT !.is_paused = TRUE]
      [] action = "resume" -> [scan_session EXCEPT !.is_paused = FALSE]
      [] action = "stop" ->
             [scan_session EXCEPT !.is_running = FALSE, !.is_paused = FALSE]
      [] action = "next" ->
             [scan_session EXCEPT !.current_index = NextIndex(scan_session)]
      [] action = "previous" ->
             [scan_session EXCEPT !.current_index = PreviousIndex(scan_session)]
      [] action = "jump" ->
             [scan_session EXCEPT !.current_index = JumpIndex(scan_session, index)]
      [] OTHER -> scan_session

\* json is the request body: action, and index when the browser sends one
control_scan(action, index) ==
    /\ request' = [op |-> "control_scan", action |-> action, index |-> index]
    /\ IF NoActiveSession
       THEN /\ response' = ErrorNoSession
            /\ UNCHANGED <<scanning_sessions, clock>>
       ELSE /\ scanning_sessions' =
                   [scanning_sessions EXCEPT
                       ![cookie] =
                           [ApplyAction(@, action, IF index = NoIndex THEN 0 ELSE index[1])
                               EXCEPT !.last_activity = Now(0)]]
            /\ clock' = Now(1)
            /\ response' = [status |-> "ok"]
    /\ UNCHANGED <<cookie, uuid_calls, gridVars, threadVars>>

(***************************************************************************)
(* /add_bookmark                                                           *)
(***************************************************************************)
\* if current_index < len(scan_session['grid_points'])
BookmarkGuardInclusive(scan_session) ==
    scan_session.current_index <= Len(scan_session.grid_points)

BookmarkGuard(scan_session) ==
    scan_session.current_index < Len(scan_session.grid_points)

NewBookmarkOneBased(bookmark_id, current_point, note, current_index) ==
    [id |-> bookmark_id,
     lat |-> current_point.lat,
     lon |-> current_point.lon,
     note |-> IF note = None THEN DefaultNote ELSE note,
     grid_index |-> current_index + 1,
     timestamp |-> Now(0)]

NewBookmark(bookmark_id, current_point, note, current_index) ==
    [id |-> bookmark_id,
     lat |-> current_point.lat,
     lon |-> current_point.lon,
     note |-> IF note = None THEN DefaultNote ELSE note,
     grid_index |-> current_index,
     timestamp |-> Now(0)]

add_bookmark(note) ==
    /\ request' = [op |-> "add_bookmark", note |-> note]
    /\ IF NoActiveSession
       THEN /\ response' = ErrorNoSession
            /\ UNCHANGED <<scanning_sessions, uuid_calls, clock>>
       ELSE LET scan_session == scanning_sessions[cookie]
                current_index == scan_session.current_index
            IN IF BookmarkGuard(scan_session)
               THEN IF PyIndexOk(scan_session.grid_points, current_index)
                    THEN /\ uuid_calls < MaxUuids
                         /\ LET bookmark ==
                                    NewBookmark(uuid_calls + 1,
                                                PyIndex(scan_session.grid_points,
                                                        current_index),
                                                note, current_index)
                            IN /\ scanning_sessions' =
                                      [scanning_sessions EXCEPT
                                          ![cookie].bookmarks = Append(@, bookmark),
                                          ![cookie].last_activity = Now(1)]
                               /\ response' = [status |-> "ok", bookmark |-> bookmark]
                         /\ uuid_calls' = uuid_calls + 1
                         /\ clock' = Now(2)
                    ELSE /\ response' = [status |-> "exception", type |-> "IndexError"]
                         /\ UNCHANGED <<scanning_sessions, uuid_calls, clock>>
               ELSE /\ response' = [status |-> "error",
                                    error |-> "Invalid location for bookmarking"]
                    /\ UNCHANGED <<scanning_sessions, uuid_calls, clock>>
    /\ UNCHANGED <<cookie, gridVars, threadVars>>

(***************************************************************************)
(* /get_bookmarks and /export_bookmarks                                    *)
(***************************************************************************)
get_bookmarks ==
    /\ request' = [op |-> "get_bookmarks"]
    /\ IF NoActiveSession
       THEN response' = ErrorNoSession
       ELSE response' = [status |-> "ok",
                         bookmarks |-> scanning_sessions[cookie].bookmarks]
    /\ UNCHANGED <<scanning_sessions, cookie, uuid_calls, clock, gridVars, threadVars>>

export_bookmarks ==
    /\ request' = [op |-> "export_bookmarks"]
    /\ IF NoActiveSession
       THEN response' = ErrorNoSession
       ELSE LET scan_session == scanning_sessions[cookie]
            IN IF Len(scan_session.grid_points) = 0
               THEN response' = [status |-> "exception", type |-> "ZeroDivisionError"]
               ELSE response' =
                        [status |-> "ok",
                         scan_info |->
                             [center_lat |-> scan_session.center_lat,
                              center_lon |-> scan_session.center_lon,
                              radius_miles |-> scan_session.radius_miles,
                              zoom_level |-> scan_session.zoom_level,
                              total_points_scanned |-> scan_session.current_index,
                              scan_date |-> scan_session.created_at],
                         bookmarks |-> scan_session.bookmarks,
                         summary |->
                             [total_bookmarks |-> Len(scan_session.bookmarks),
                              areas_scanned |-> scan_session.current_index,
                              \* current_index / len(grid_points) * 100, as a fraction
                              completion_num |-> scan_session.current_index * 100,
                              completion_den |-> Len(scan_session.grid_points)]]
    /\ UNCHANGED <<scanning_sessions, cookie, uuid_calls, clock, gridVars, threadVars>>

(***************************************************************************)
(* Environment: the process is restarted (the store is empty again, the    *)
(* browser keeps its cookie).                                              *)
(***************************************************************************)
Restart ==
    /\ scanning_sessions # <<>>
    /\ scanning_sessions' = <<>>
    /\ request' = NoRequest
    /\ response' = NoResponse
    /\ UNCHANGED <<cookie, uuid_calls, clock, gridVars, threadVars>>

\* Environment: the browser loses its cookie, or another browser that has
\* none sends the next requests; the sessions stay in the store.
ClearCookie ==
    /\ cookie # NoSessionId
    /\ cookie' = NoSessionId
    /\ request' = NoRequest
    /\ response' = NoResponse
    /\ UNCHANGED <<scanning_sessions, uuid_calls, clock, gridVars, threadVars>>

\* the bodies of the POST requests sent: control_scan and add_bookmark return
\* before they read the body when there is no active session, so one body
\* stands for all of them then
ControlActions == IF NoActiveSession THEN {"next"} ELSE Actions \cup OtherActions
BookmarkNotes == IF NoActiveSession THEN {None} ELSE Notes

Next ==
    \/ \E data \in SetupData : setup_scan(data)
    \/ get_current_location
    \/ \E action \in ControlActions :
           \E index \in (IF action = "jump" THEN JumpIndices \cup {NoIndex} ELSE {NoIndex}) :
               control_scan(action, index)
    \/ \E note \in BookmarkNotes : add_bookmark(note)
    \/ get_bookmarks
    \/ export_bookmarks
    \/ Restart
    \/ ClearCookie

Spec == Init /\ [][Next]_vars

(***************************************************************************)
(* Direct calls of the generator over a range of arguments.                *)
(***************************************************************************)
GridInputs ==
    [center_lat : CenterLats, center_lon : {CenterLon},
     radius_miles : RadiiMiles, zoom_level : ZoomLevels]

InitGrid ==
    /\ gridIn \in GridInputs
    /\ gridOut = <<>>
    /\ gridDone = FALSE
    /\ scanning_sessions = <<>>
    /\ cookie = NoSessionId
    /\ uuid_calls = 0
    /\ clock = 0
    /\ request = NoRequest
    /\ response = NoResponse
    /\ InitThreadsIdle

Generate ==
    /\ ~gridDone
    /\ gridOut' = calculate_scan_grid(gridIn.center_lat, gridIn.center_lon,
                                      gridIn.radius_miles, gridIn.zoom_level)
    /\ gridDone' = TRUE
    /\ UNCHANGED <<gridIn, storeVars, threadVars>>

NextGrid == Generate

SpecGrid == InitGrid /\ [][NextGrid]_vars

(***************************************************************************)
(* /control_scan requests of one browser handled by two threads of the     *)
(* server. The handler takes no lock: a thread can be suspended between    *)
(* any two of its reads and writes of the session.                         *)
(***************************************************************************)
\* the actions the two requests carry ('jump' without index: index 0)
OverlapActions == {"start", "stop", "next", "previous", "jump"}

\* the session the threads work on: 3 grid points
OverlapSetup == ValidSetup(9 * MilesPerDegree)

\* the assignments to the session a request makes, in the order of the
\* handler, with their right-hand sides evaluated on the session read
SessionWrites(scan_session, action, index) ==
    CASE action = "start" -> <<[field |-> "is_running", value |-> TRUE],
                               [field |-> "is_paused", value |-> FALSE]>>
      [] action = "pause" -> <<[field |-> "is_paused", value |-> TRUE]>>
      [] action = "resume" -> <<[field |-> "is_paused", value |-> FALSE]>>
      [] action = "stop" -> <<[field |-> "is_running", value |-> FALSE],
                              [field |-> "is_paused", value |-> FALSE]>>
      [] action = "next" ->
             <<[field |-> "current_index", value |-> NextIndex(scan_session)]>>
      [] action = "previous" ->
             <<[field |-> "current_index", value |-> PreviousIndex(scan_session)]>>
      [] action = "jump" ->
             <<[field |-> "current_index", value |-> JumpIndex(scan_session, index)]>>
      [] OTHER -> <<>>

\* a first session is set up while no request is in progress
SetupOverlap ==
    /\ scanning_sessions = <<>>
    /\ \A t \in Threads : threads[t].pc = "idle"
    /\ setup_scan(OverlapSetup)

\* a thread takes a request: session check, action = request.json.get('action')
ReceiveControl(t, action) ==
    /\ ~NoActiveSession
    /\ threads[t].pc = "idle"
    /\ threads' = [threads EXCEPT ![t] = [pc |-> "read", action |-> action,
                                          writes |-> <<>>]]
    /\ overlap_start' = IF \A u \in Threads : threads[u].pc = "idle"
                        THEN scanning_sessions[cookie]
                        ELSE overlap_start
    /\ UNCHANGED <<storeVars, gridVars>>

\* it reads the session and evaluates the right-hand sides of its branch
ReadSession(t) ==
    /\ threads[t].pc = "read"
    /\ threads' = [threads EXCEPT
                       ![t].pc = "write",
                       ![t].writes = SessionWrites(scanning_sessions[cookie],
                                                   threads[t].action, 0)]
    /\ UNCHANGED <<storeVars, gridVars, overlap_start>>

\* it stores one value into the session
WriteSession(t) ==
    /\ threads[t].pc = "write"
    /\ threads[t].writes # <<>>
    /\ LET write == Head(threads[t].writes)
       IN scanning_sessions' =
              [scanning_sessions EXCEPT ![cookie][write.field] = write.value]
    /\ threads' = [threads EXCEPT ![t].writes = Tail(@)]
    /\ UNCHANGED <<cookie, uuid_calls, clock, request, response, gridVars,
                   overlap_start>>

\* scan_session['last_activity'] = datetime.now().isoformat(); return
StampActivity(t) ==
    /\ threads[t].pc = "write"
    /\ threads[t].writes = <<>>
    /\ scanning_sessions' = [scanning_sessions EXCEPT ![cookie].last_activity = Now(0)]
    /\ clock' = Now(1)
    /\ threads' = [threads EXCEPT ![t].pc = "done"]
    /\ UNCHANGED <<cookie, uuid_calls, request, response, gridVars, overlap_start>>

\* both requests are answered; the threads are free for the next two
BothAnswered ==
    /\ \A t \in Threads : threads[t].pc = "done"
    /\ threads' = [t \in Threads |-> IdleThread]
    /\ overlap_start' = None
    /\ UNCHANGED <<storeVars, gridVars>>

NextOverlap ==
    \/ SetupOverlap
    \/ \E t \in Threads : \E action \in OverlapActions : ReceiveControl(t, action)
    \/ \E t \in Threads : ReadSession(t)
    \/ \E t \in Threads : WriteSession(t)
    \/ \E t \in Threads : StampActivity(t)
    \/ BothAnswered

SpecOverlap == Init /\ [][NextOverlap]_vars

(***************************************************************************)
(* Properties of the grid generator (checked under SpecGrid).              *)
(***************************************************************************)
InGridSize == GridSize(gridIn.radius_miles, gridIn.zoom_level)
InCells == (0..(InGridSize - 1)) \X (0..(InGridSize - 1))
InOffset(k) == Offset(gridIn.radius_miles, gridIn.zoom_level, k)

\* the cell's distance from the centre is at most radius_miles, stated on
\* the squared distance
CellInDisc(row, col) ==
    /\ gridIn.radius_miles >= 0
    /\ DistanceSq(gridIn.center_lat, InOffset(row), InOffset(col))
           <= RadiusSq(gridIn.radius_miles)

Occurrences(row, col) ==
    Cardinality({i \in 1..Len(gridOut) : gridOut[i].row = row /\ gridOut[i].col = col})

\* C4: the output holds a lattice cell exactly once when the cell's distance
\* from the centre is <= radius_miles and not at all otherwise, and every
\* returned point is a lattice cell within the radius.
C4_DiscCellsExactlyOnce ==
    gridDone =>
        /\ \A c \in InCells :
               Occurrences(c[1], c[2]) = IF CellInDisc(c[1], c[2]) THEN 1 ELSE 0
        /\ \A i \in 1..Len(gridOut) :
               /\ <<gridOut[i].row, gridOut[i].col>> \in InCells
               /\ CellInDisc(gridOut[i].row, gridOut[i].col)

C4_Witness ==
    /\ gridDone
    /\ \E c \in InCells : CellInDisc(c[1], c[2]) /\ Occurrences(c[1], c[2]) = 1
    /\ \E c \in InCells : ~CellInDisc(c[1], c[2]) /\ Occurrences(c[1], c[2]) = 0

\* C5: the element at position i of the output has id i (counting from 0),
\* also when cells or whole rows are dropped.
C5_IdsContiguous ==
    gridDone => \A i \in 1..Len(gridOut) : gridOut[i].id = i - 1

C5_Witness ==
    /\ gridDone
    /\ Len(gridOut) >= 3
    /\ gridOut[1].row >= 1
    /\ \E i \in 1..(Len(gridOut) - 1) :
           /\ gridOut[i].row = gridOut[i + 1].row
           /\ gridOut[i].row % 2 = 0
           /\ gridOut[i].col > 0
           /\ ~CellInDisc(gridOut[i].row, 0)

\* C6: serpentine order: rows never decrease along the output; within a row
\* the columns strictly increase when the row is even and strictly decrease
\* when it is odd.
C6_Serpentine ==
    gridDone =>
        \A i, j \in 1..Len(gridOut) :
            i < j =>
                /\ gridOut[i].row <= gridOut[j].row
                /\ gridOut[i].row = gridOut[j].row =>
                       IF gridOut[i].row % 2 = 0
                       THEN gridOut[i].col < gridOut[j].col
                       ELSE gridOut[i].col > gridOut[j].col

C6_Witness ==
    /\ gridDone
    /\ \E i, j \in 1..(Len(gridOut) - 1) :
           /\ gridOut[i].row % 2 = 0 /\ gridOut[i + 1].row = gridOut[i].row
           /\ gridOut[j].row % 2 = 1 /\ gridOut[j + 1].row = gridOut[j].row

\* C7 as stated: any two consecutive points of the output are adjacent
\* lattice cells, one step apart in row or in col.
C7_ConsecutiveAdjacent ==
    gridDone =>
        \A k \in 1..(Len(gridOut) - 1) :
            Abs(gridOut[k + 1].row - gridOut[k].row)
                + Abs(gridOut[k + 1].col - gridOut[k].col) = 1

\* C7 amended: two consecutive points of the output that lie in the same row
\* are adjacent lattice cells, exactly one column apart.
C7_SameRowAdjacent ==
    gridDone =>
        \A k \in 1..(Len(gridOut) - 1) :
            gridOut[k + 1].row = gridOut[k].row =>
                Abs(gridOut[k + 1].col - gridOut[k].col) = 1

C7_Witness ==
    /\ gridDone
    /\ \E k \in 1..(Len(gridOut) - 1) :
           /\ gridOut[k + 1].row = gridOut[k].row
           /\ gridOut[k].row % 2 = 1
    /\ \E k \in 1..(Len(gridOut) - 1) :
           /\ gridOut[k + 1].row = gridOut[k].row + 1
           /\ Abs(gridOut[k + 1].col - gridOut[k].col) >= 1

\* locations of the disc on the degree-unit lattice, as offsets from the
\* centre (a location within the radius is at most RadiusDeg away in
\* latitude and, down to 60 degrees of latitude, 2 * RadiusDeg in longitude)
InLocations ==
    LET r == Abs(RadiusDeg(gridIn.radius_miles))
    IN {loc \in ((0 - r)..r) \X ((0 - 2 * r)..(2 * r)) :
            /\ gridIn.radius_miles >= 0
            /\ DistanceSq(gridIn.center_lat, loc[1], loc[2])
                   <= RadiusSq(gridIn.radius_miles)}

\* the location lies in the viewport (a square of side ViewSize) centred on
\* the point
InViewport(loc, point) ==
    /\ 2 * Abs(loc[1] - InOffset(point.row)) <= ViewSize(gridIn.zoom_level)
    /\ 2 * Abs(loc[2] - InOffset(point.col)) <= ViewSize(gridIn.zoom_level)

\* C8: every location within radius_miles of the centre lies inside the
\* viewport centred on at least one returned point.
C8_DiscCovered ==
    gridDone =>
        \A loc \in InLocations :
            \E i \in 1..Len(gridOut) : InViewport(loc, gridOut[i])

\* C9 as stated: radius_miles <= 0 or grid_size <= 0 gives an empty output.
C9_DegenerateEmpty ==
    (gridDone /\ (gridIn.radius_miles <= 0 \/ InGridSize <= 0)) => gridOut = <<>>

\* C9 amended: radius_miles < 0 or grid_size <= 0 gives an empty output;
\* radius_miles = 0 gives exactly one point, the centre itself (row 0, col 0).
C9_NegativeEmptyZeroCentre ==
    /\ (gridDone /\ (gridIn.radius_miles < 0 \/ InGridSize <= 0)) => gridOut = <<>>
    /\ (gridDone /\ gridIn.radius_miles = 0) =>
           /\ Len(gridOut) = 1
           /\ gridOut[1].row = 0 /\ gridOut[1].col = 0
           /\ gridOut[1].lat = gridIn.center_lat /\ gridOut[1].lon = gridIn.center_lon

C9_Witness ==
    /\ gridDone
    /\ gridIn.radius_miles < 0
    /\ InGridSize = 1
    /\ gridOut = <<>>

(***************************************************************************)
(* Properties of the session store (checked under Spec).                   *)
(***************************************************************************)
\* x clamped to [lo, hi]
Clamp(x, lo, hi) == Max(lo, Min(x, hi))

\* the session the request is for, when the browser has one in the store
Current == scanning_sessions[cookie]

\* the step handles a /control_scan request with this action on a stored session
ControlStep(action) ==
    /\ ~NoActiveSession
    /\ request'.op = "control_scan"
    /\ request'.action = action

\* C1: for every stored session, 0 <= current_index <= len(grid_points),
\* also for a session whose grid_points is empty.
C1_IndexWithinGrid ==
    \A id \in DOMAIN scanning_sessions :
        /\ 0 <= scanning_sessions[id].current_index
        /\ scanning_sessions[id].current_index <= Len(scanning_sessions[id].grid_points)

\* C2: 'next' sets current_index to old + 1 clamped to [0, len - 1] and never
\* leaves it above len - 1; 'previous' sets it to old - 1 clamped to
\* [0, len - 1] and never leaves it below 0.
C2_NextPreviousClamped ==
    [][/\ ControlStep("next") =>
              /\ scanning_sessions'[cookie].current_index =
                     Clamp(Current.current_index + 1, 0, Len(Current.grid_points) - 1)
              /\ scanning_sessions'[cookie].current_index <= Len(Current.grid_points) - 1
       /\ ControlStep("previous") =>
              /\ scanning_sessions'[cookie].current_index =
                     Clamp(Current.current_index - 1, 0, Len(Current.grid_points) - 1)
              /\ scanning_sessions'[cookie].current_index >= 0]_vars

\* C3: 'jump' sets current_index to the index sent, clamped to [0, len - 1],
\* whatever current_index was before; without an index it sets it to 0.
C3_JumpClamped ==
    [][ControlStep("jump") =>
           scanning_sessions'[cookie].current_index =
               IF request'.index = NoIndex THEN 0
               ELSE Clamp(request'.index[1], 0, Len(Current.grid_points) - 1)]_vars

C3_Witness ==
    /\ ~NoActiveSession
    /\ request.op = "control_scan"
    /\ request.action = "jump"
    /\ request.index = <<9999>>
    /\ Len(Current.grid_points) >= 3
    /\ Current.current_index = Len(Current.grid_points) - 1

\* C10: add_bookmark on a stored session whose current_index equals
\* len(grid_points) answers with an error value, creates no bookmark and
\* leaves the session (bookmarks, current_index, flags) as it was.
C10_BookmarkPastEndRejected ==
    [][(/\ ~NoActiveSession
        /\ request'.op = "add_bookmark"
        /\ Current.current_index = Len(Current.grid_points))
       => /\ response'.status = "error"
          /\ scanning_sessions' = scanning_sessions
          /\ uuid_calls' = uuid_calls]_vars

C10_Witness ==
    /\ ~NoActiveSession
    /\ request.op = "add_bookmark"
    /\ Current.current_index = Len(Current.grid_points)
    /\ response.status = "error"
    /\ response.error = "Invalid location for bookmarking"
    /\ Current.bookmarks = <<>>

\* the step handles a request of this kind for a session in the store
HandlerStep(op) ==
    /\ ~NoActiveSession
    /\ request'.op = op

C13_FlagTransitions ==
    [][LET after == scanning_sessions'[cookie]
       IN /\ ControlStep("start") => after.is_running /\ ~after.is_paused
          /\ ControlStep("pause") =>
                 after.is_paused /\ after.is_running = Current.is_running
          /\ ControlStep("resume") =>
                 ~after.is_paused /\ after.is_running = Current.is_running
          /\ ControlStep("stop") => ~after.is_running /\ ~after.is_paused]_vars

\* a session that is not running has been paused
C13_Witness ==
    /\ ~NoActiveSession
    /\ request.op = "control_scan"
    /\ request.action = "pause"
    /\ Current.is_paused
    /\ ~Current.is_running

\* C14: control on a stored session with an action that is none of the
\* seven (or with no action) answers success and changes nothing of the
\* session but last_activity: current_index, is_running, is_paused,
\* bookmarks and grid_points are as before, and so is every other session.
C14_UnknownActionNoOp ==
    [][(/\ HandlerStep("control_scan")
        /\ request'.action \notin Actions)
       => /\ response'.status = "ok"
          /\ DOMAIN scanning_sessions' = DOMAIN scanning_sessions
          /\ \A id \in DOMAIN scanning_sessions :
                 scanning_sessions'[id] =
                     IF id = cookie
                     THEN [scanning_sessions[id] EXCEPT
                              !.last_activity = scanning_sessions'[id].last_activity]
                     ELSE scanning_sessions[id]
          /\ scanning_sessions'[cookie].last_activity = clock]_vars

\* an unknown action on a running session that has moved and has a bookmark
C14_Witness ==
    /\ ~NoActiveSession
    /\ request.op = "control_scan"
    /\ request.action = "rewind"
    /\ response.status = "ok"
    /\ Current.is_running
    /\ Current.current_index = 1
    /\ Len(Current.bookmarks) = 1
    /\ Current.last_activity > Current.created_at

\* the five handlers that need a session
SessionHandlers ==
    {"get_current_location", "control_scan", "add_bookmark", "get_bookmarks",
     "export_bookmarks"}

\* C15: when the browser has no session id, or one that is not in the store,
\* get_current_location, control_scan, add_bookmark, get_bookmarks and
\* export_bookmarks each answer with the error 'No active scanning session'
\* and change nothing: the store and every session in it are as before.
C15_NoSessionReported ==
    [][(NoActiveSession /\ request'.op \in SessionHandlers)
       => /\ response'.status = "error"
          /\ response'.error = "No active scanning session"
          /\ scanning_sessions' = scanning_sessions
          /\ cookie' = cookie
          /\ uuid_calls' = uuid_calls]_vars

\* no session id, while another browser's session with a bookmark is stored
C15_Witness ==
    /\ cookie = NoSessionId
    /\ request.op = "add_bookmark"
    /\ response.status = "error"
    /\ response.error = "No active scanning session"
    /\ \E id \in DOMAIN scanning_sessions :
           /\ Len(scanning_sessions[id].bookmarks) = 1
           /\ scanning_sessions[id].is_running

\* a session id that is no longer in the store
C15_WitnessStale ==
    /\ cookie # NoSessionId
    /\ cookie \notin DOMAIN scanning_sessions
    /\ request.op = "control_scan"
    /\ response.status = "error"
    /\ response.error = "No active scanning session"

\* C16: a successful setup_scan stores a new session under an id that was
\* not in the store, with current_index = 0, is_running = false, is_paused =
\* false, no bookmarks and grid_points = the output of calculate_scan_grid
\* for the parameters sent; it reports total_points = len(grid_points);
\* every session stored before is still stored and unchanged.
C16_CreateStoresFreshSession ==
    [][(request'.op = "setup_scan" /\ response'.status = "ok")
       => LET session_id == response'.session_id
              data == request'.data
          IN /\ session_id \notin DOMAIN scanning_sessions
             /\ DOMAIN scanning_sessions' = DOMAIN scanning_sessions \cup {session_id}
             /\ LET new == scanning_sessions'[session_id]
                IN /\ new.current_index = 0
                   /\ ~new.is_running
                   /\ ~new.is_paused
                   /\ new.bookmarks = <<>>
                   /\ new.grid_points =
                          calculate_scan_grid(data.center_lat.value,
                                              data.center_lon.value,
                                              data.radius_miles.value,
                                              data.zoom_level.value)
                   /\ response'.total_points = Len(new.grid_points)
             /\ \A id \in DOMAIN scanning_sessions :
                    scanning_sessions'[id] = scanning_sessions[id]]_vars

\* a second session is created while a running one with a bookmark is stored
C16_Witness ==
    /\ request.op = "setup_scan"
    /\ response.status = "ok"
    /\ response.total_points = 3
    /\ response.session_id = cookie
    /\ Cardinality(DOMAIN scanning_sessions) = 2
    /\ Current.current_index = 0
    /\ Len(Current.grid_points) = 3
    /\ \E id \in DOMAIN scanning_sessions :
           /\ id # cookie
           /\ scanning_sessions[id].is_running
           /\ scanning_sessions[id].current_index = 2

\* C17: when one of center_lat, center_lon, radius_miles, zoom_level,
\* speed_seconds is missing or is not a number, setup_scan answers with an
\* error value, stores no session, leaves the store as it was and leaves the
\* browser's session id as it was.
C17_CreateRejected ==
    [][(/\ request'.op = "setup_scan"
        /\ \E f \in SetupFields :
               f \notin DOMAIN request'.data \/ ~request'.data[f].numeric)
       => /\ response'.status = "error"
          /\ scanning_sessions' = scanning_sessions
          /\ cookie' = cookie
          /\ uuid_calls' = uuid_calls]_vars

\* a request without zoom_level is refused while the browser has a session
C17_Witness ==
    /\ ~NoActiveSession
    /\ request.op = "setup_scan"
    /\ "zoom_level" \notin DOMAIN request.data
    /\ response.status = "error"
    /\ Current.is_running
    /\ Current.current_index = 1

\* radius_miles is not a number
C17_WitnessUnparsable ==
    /\ ~NoActiveSession
    /\ request.op = "setup_scan"
    /\ "radius_miles" \in DOMAIN request.data
    /\ ~request.data.radius_miles.numeric
    /\ response.status = "error"
    /\ Len(Current.bookmarks) = 1

\* C18: for a stored session in any reachable state, get_current_location
\* answers 'completed' exactly when current_index = len(grid_points), and
\* otherwise answers with grid_points[current_index], that current_index,
\* total_points = len(grid_points) and the flags; it never fails. (The
\* handler leaves the session as it was, so the state after the request is
\* the state it answered for.)
C18_PositionView ==
    (~NoActiveSession /\ request.op = "get_current_location")
    => /\ response.status = "ok"
       /\ ("completed" \in DOMAIN response)
              <=> (Current.current_index = Len(Current.grid_points))
       /\ "completed" \notin DOMAIN response =>
              /\ 0 <= Current.current_index
              /\ Current.current_index < Len(Current.grid_points)
              /\ response.current_point =
                     Current.grid_points[Current.current_index + 1]
              /\ response.current_index = Current.current_index
              /\ response.total_points = Len(Current.grid_points)
              /\ response.is_running = Current.is_running
              /\ response.is_paused = Current.is_paused

\* C18: get_current_location changes neither the store nor the cookie.
C18_PositionReadOnly ==
    [][request'.op = "get_current_location"
       => scanning_sessions' = scanning_sessions /\ cookie' = cookie]_vars

\* C19: for every stored session in any reachable state, also one with no
\* grid point, export_bookmarks answers with a snapshot: the scan
\* parameters, all bookmarks in order, total_bookmarks = len(bookmarks) and
\* completion_percentage = current_index / len(grid_points) * 100. (The
\* handler leaves the session as it was, so the state after the request is
\* the state it answered for.)
C19_ExportSnapshot ==
    (~NoActiveSession /\ request.op = "export_bookmarks")
    => /\ response.status = "ok"
       /\ response.scan_info.center_lat = Current.center_lat
       /\ response.scan_info.center_lon = Current.center_lon
       /\ response.scan_info.radius_miles = Current.radius_miles
       /\ response.scan_info.zoom_level = Current.zoom_level
       /\ response.bookmarks = Current.bookmarks
       /\ response.summary.total_bookmarks = Len(Current.bookmarks)
       /\ response.summary.completion_num * Len(Current.grid_points) =
              Current.current_index * 100 * response.summary.completion_den

\* C19: export_bookmarks and get_bookmarks change neither the store nor the
\* cookie.
C19_ExportListReadOnly ==
    [][request'.op \in {"export_bookmarks", "get_bookmarks"}
       => scanning_sessions' = scanning_sessions /\ cookie' = cookie]_vars

\* C21: for a session with at least one grid point, after any sequence of
\* control_scan, add_bookmark and read requests current_index is in
\* 0 .. len(grid_points) - 1: current_index = len(grid_points) is never
\* reached, so get_current_location never answers 'completed' and
\* add_bookmark is never refused for its location.
C21_NonEmptyNeverCompleted ==
    /\ \A id \in DOMAIN scanning_sessions :
           Len(scanning_sessions[id].grid_points) > 0 =>
               /\ 0 <= scanning_sessions[id].current_index
               /\ scanning_sessions[id].current_index
                      <= Len(scanning_sessions[id].grid_points) - 1
    /\ (~NoActiveSession /\ Len(Current.grid_points) > 0) =>
           /\ request.op = "get_current_location" =>
                  response.status = "ok" /\ "completed" \notin DOMAIN response
           /\ request.op = "add_bookmark" => response.status = "ok"

\* 'next' at the last point, where a bookmark was added before
C21_Witness ==
    /\ ~NoActiveSession
    /\ request.op = "control_scan"
    /\ request.action = "next"
    /\ Len(Current.grid_points) = 3
    /\ Current.current_index = 2
    /\ Len(Current.bookmarks) = 1
    /\ Current.bookmarks[1].grid_index = 2

\* the step leaves the fields of the session that are set at creation
SameScanParameters(before, after) ==
    /\ after.grid_points = before.grid_points
    /\ after.id = before.id
    /\ after.center_lat = before.center_lat
    /\ after.center_lon = before.center_lon
    /\ after.radius_miles = before.radius_miles
    /\ after.zoom_level = before.zoom_level
    /\ after.speed_seconds = before.speed_seconds
    /\ after.created_at = before.created_at

\* what a /control_scan step with this action may do to the session
OwnFields(action, index, before, after) ==
    LET len == Len(before.grid_points)
        old == before.current_index
    IN /\ action \in {"start", "pause", "resume", "stop"} =>
              after.current_index = old
       /\ action \in {"next", "previous", "jump"} =>
              /\ after.is_running = before.is_running
              /\ after.is_paused = before.is_paused
       /\ (action = "next" /\ 0 <= old /\ old + 1 <= len - 1) =>
              after.current_index = old + 1
       /\ (action = "previous" /\ 1 <= old /\ old <= len) =>
              after.current_index = old - 1
       /\ (action = "jump" /\ index # NoIndex /\ 0 <= index[1] /\ index[1] <= len - 1) =>
              after.current_index = index[1]

\* C22: each request changes only its own fields of the session: start,
\* pause, resume and stop leave current_index; next, previous and jump leave
\* is_running and is_paused and move the index whatever the flags are (next
\* to old + 1 while that is a grid index, previous to old - 1 while that is
\* one, jump to the index sent when that is one); no request changes the
\* grid_points or the scan parameters of a stored session.
C22_OwnFieldsOnly ==
    [][/\ (request'.op = "control_scan" /\ ~NoActiveSession) =>
              OwnFields(request'.action, request'.index, Current,
                        scanning_sessions'[cookie])
       /\ \/ scanning_sessions' = scanning_sessions
          \/ \A id \in DOMAIN scanning_sessions \cap DOMAIN scanning_sessions' :
                 SameScanParameters(scanning_sessions[id], scanning_sessions'[id])]_vars

\* 'next' has moved a session that is paused and not running
C22_Witness ==
    /\ ~NoActiveSession
    /\ request.op = "control_scan"
    /\ request.action = "next"
    /\ Current.is_paused
    /\ ~Current.is_running
    /\ Len(Current.grid_points) = 3
    /\ Current.current_index = 1

(***************************************************************************)
(* Properties of overlapping requests (checked under SpecOverlap).         *)
(***************************************************************************)
\* what control_scan decides of a session
ControlState(scan_session) ==
    [current_index |-> scan_session.current_index,
     is_running |-> scan_session.is_running,
     is_paused |-> scan_session.is_paused]

\* the session after the requests of threads t and u, handled one at a time
OneAtATime(scan_session, t, u) ==
    ApplyAction(ApplyAction(scan_session, threads[t].action, 0), threads[u].action, 0)

\* C20: requests on one session are handled one at a time: when two
\* control_scan requests on the same session have overlapped and both are
\* answered, the session (current_index and flags) is what handling them in
\* one of the two orders gives; no update of current_index is lost.
C20_OverlapSequential ==
    (\A t \in Threads : threads[t].pc = "done")
    => \E t \in Threads : \E u \in Threads \ {t} :
           ControlState(Current) = ControlState(OneAtATime(overlap_start, t, u))

=============================================================================
